---- MODULE Spec2Model ----
(***************************************************************************)
(* rust-typemap: src/src/lib.rs.  A TypeMap is a HashMap from TypeId to    *)
(* Box<Any>; the typed methods compute TypeId::of::<K>() and recover the   *)
(* boxed value with the unchecked downcasts of unsafe-any.                 *)
(*                                                                         *)
(* A key type K is the number of its TypeId, a value type V a number too,  *)
(* and a value of any type is one of Values.  A Box<Any> remembers the     *)
(* type it was built from (ty) and the value (val).                        *)
(***************************************************************************)
EXTENDS Integers, FiniteSets, Sequences, TLC

\* Bounds of the model.
NumKeys == 2
NumTypes == 2
MaxVal == 2

Keys == 1..NumKeys
Types == 1..NumTypes
Values == 1..MaxVal

\* pub trait Assoc<Value: 'static>: 'static {}  (lib.rs:28).  The trait takes
\* the value type as a type PARAMETER, so a client may write
\* `impl Assoc<A> for K {}` and `impl Assoc<B> for K {}` side by side: Assoc is
\* a relation, the set of the client's impls.  Key 1 has the one impl of the
\* tests (impl Assoc<Value> for Key, lib.rs:173); key k has k impls.
Assoc == {p \in Keys \X Types : p[2] <= p[1]}

None == << >>
Some(x) == <<x>>

\* box val as Box<Any>
Box(ty, v) == [ty |-> ty, val |-> v]

\* downcast_ref_unchecked / downcast_mut_unchecked / downcast_unchecked::<V>:
\* no check of the box's type.  The outcomes of reading box b as a `ty`: the
\* stored value when b was built from a `ty`, and otherwise (undefined
\* behaviour, a type-confused read) any value at all.
downcast_unchecked(b, ty) == IF b.ty = ty THEN {b.val} ELSE Values

\* A write of w through a `&mut ty` into box b: the outcomes for the box.
write_unchecked(b, ty, w) ==
    IF b.ty = ty THEN {Box(ty, w)} ELSE {Box(b.ty, x) : x \in Values}

\* HashMap::new()
TypeMap_new == [j \in {} |-> Box(1, 1)]

----------------------------------------------------------------------------
\* std::collections::HashMap as this code's toolchain has it (MutableMap):
\* insert(k, v) -> bool "Return true if the key did not already exist in the
\* map"; remove(&k) -> bool "Return true if the key was present in the map".

\* Mutant: an insert that keeps the box of a key that is already present.
HashMap_insert_keep(d, k, b) ==
    [data |-> [j \in DOMAIN d \cup {k} |-> IF j \in DOMAIN d THEN d[j] ELSE b],
     ret  |-> k \notin DOMAIN d]

HashMap_insert(d, k, b) ==
    [data |-> [j \in DOMAIN d \cup {k} |-> IF j = k THEN b ELSE d[j]],
     ret  |-> k \notin DOMAIN d]

HashMap_remove(d, k) ==
    [data |-> [j \in DOMAIN d \ {k} |-> d[j]],
     ret  |-> k \in DOMAIN d]

----------------------------------------------------------------------------
\* The typed methods of TypeMap, as functions of the map d.  A method that
\* changes the map yields [data, ret]; a read that goes through an unchecked
\* downcast yields the SET of its possible results.

\* Mutant: insert files the box under TypeId::of::<V>() instead of K's.
TypeMap_insert_by_value(d, k, ty, v) == HashMap_insert(d, ty, Box(ty, v))

\* Mutant: the bool of insert turned round (true when an entry was replaced).
TypeMap_insert_replaced(d, k, ty, v) ==
    [data |-> HashMap_insert(d, k, Box(ty, v)).data,
     ret  |-> k \in DOMAIN d]

TypeMap_insert(d, k, ty, v) == HashMap_insert(d, k, Box(ty, v))

\* Mutant: find looks the slot up under TypeId::of::<V>() instead of K's.
TypeMap_find_by_value(d, k, ty) ==
    IF ty \in DOMAIN d THEN {Some(x) : x \in downcast_unchecked(d[ty], ty)}
                       ELSE {None}

TypeMap_find(d, k, ty) ==
    IF k \in DOMAIN d THEN {Some(x) : x \in downcast_unchecked(d[k], ty)}
                      ELSE {None}

\* Mutant: contains answers for the map as a whole (it is not empty).
TypeMap_contains_any(d, k) == DOMAIN d # {}

TypeMap_contains(d, k) == k \in DOMAIN d

\* Mutant: remove reports the entry and leaves it in the map.
TypeMap_remove_keep(d, k) == [data |-> d, ret |-> k \in DOMAIN d]

TypeMap_remove(d, k) == HashMap_remove(d, k)

\* Mutant: the two arms of entry's match swapped.
TypeMap_entry_swapped(d, k) == IF k \in DOMAIN d THEN "Vacant" ELSE "Occupied"

TypeMap_entry(d, k) == IF k \in DOMAIN d THEN "Occupied" ELSE "Vacant"

\* Mutant: len counts the value types held instead of the slots.
TypeMap_len_types(d) == Cardinality({d[j].ty : j \in DOMAIN d})

TypeMap_len(d) == Cardinality(DOMAIN d)

TypeMap_is_empty(d) == DOMAIN d = {}

\* Mutant: clear drops nothing.
TypeMap_clear_noop(d) == d

TypeMap_clear(d) == [j \in {} |-> Box(1, 1)]

\* find_mut: the exclusive reference it returns is named by the slot it is into.
TypeMap_find_mut(d, k) == IF k \in DOMAIN d THEN Some(k) ELSE None

----------------------------------------------------------------------------
\* The views of hashmap's entry API, on slot k of map d, held as Entry<K, V>
\* with V = ty.  hashmap::OccupiedEntry::set swaps the box in the slot and
\* hands back the old one, take pops the slot, hashmap::VacantEntry::set
\* puts the box into the empty slot.

OccupiedEntry_get(d, k, ty) == downcast_unchecked(d[k], ty)

\* Mutant: set pops the old box and never puts the new one into the slot.
OccupiedEntry_set_pop(d, k, ty, v) ==
    [data |-> [j \in DOMAIN d \ {k} |-> d[j]],
     rets |-> downcast_unchecked(d[k], ty)]

OccupiedEntry_set(d, k, ty, v) ==
    [data |-> [d EXCEPT ![k] = Box(ty, v)],
     rets |-> downcast_unchecked(d[k], ty)]

\* Mutant: take reads the value out and leaves the slot in the map.
OccupiedEntry_take_keep(d, k, ty) ==
    [data |-> d, rets |-> downcast_unchecked(d[k], ty)]

OccupiedEntry_take(d, k, ty) ==
    [data |-> [j \in DOMAIN d \ {k} |-> d[j]],
     rets |-> downcast_unchecked(d[k], ty)]

\* Mutant: the value is boxed and never put into the slot.
VacantEntry_set_lost(d, k, ty, v) == d

VacantEntry_set(d, k, ty, v) == (k :> Box(ty, v)) @@ d

----------------------------------------------------------------------------
VARIABLES
    data,   \* TypeMap.data: TypeId -> Box<Any>
    view,   \* the live Entry<'a, K, V> borrowed from the map, or NoView
    mref,   \* the live &mut V into a slot of the map, or NoRef
    last    \* the last call: its name, type arguments, argument, result,
            \* and the map as it was when the call began (pre)

vars == <<data, view, mref, last>>

NoView == [kind |-> "None", k |-> 0, ty |-> 0, at |-> TypeMap_new]
NoRef == [from |-> "None", k |-> 0, ty |-> 0]

Call(op, k, ty, arg, ret) ==
    [op |-> op, k |-> k, ty |-> ty, arg |-> arg, ret |-> ret, pre |-> data]

\* let mut map = TypeMap::new();
Init ==
    /\ data = TypeMap_new
    /\ view = NoView
    /\ mref = NoRef
    /\ last = [op |-> "new", k |-> 0, ty |-> 0, arg |-> None, ret |-> None,
               pre |-> TypeMap_new]

\* Mutant: the borrow of the map is not tracked (entry and find_mut taking
\* &self, or the views not carrying 'a).
Free_unborrowed == TRUE

\* The map itself can be used: nothing borrowed from it is alive.
Free == view = NoView /\ mref = NoRef

Insert(k, ty, v) ==
    /\ Free
    /\ LET r == TypeMap_insert(data, k, ty, v) IN
         /\ data' = r.data
         /\ last' = Call("insert", k, ty, Some(v), r.ret)
    /\ UNCHANGED <<view, mref>>

Find(k, ty) ==
    /\ Free
    /\ \E r \in TypeMap_find(data, k, ty) : last' = Call("find", k, ty, None, r)
    /\ UNCHANGED <<data, view, mref>>

\* The &mut V of find_mut stays alive (mref) until DropRef.
FindMut(k, ty) ==
    /\ Free
    /\ last' = Call("find_mut", k, ty, None, TypeMap_find_mut(data, k))
    /\ mref' = IF k \in DOMAIN data
               THEN [from |-> "find_mut", k |-> k, ty |-> ty] ELSE NoRef
    /\ UNCHANGED <<data, view>>

Contains(k, ty) ==
    /\ Free
    /\ last' = Call("contains", k, ty, None, TypeMap_contains(data, k))
    /\ UNCHANGED <<data, view, mref>>

Remove(k, ty) ==
    /\ Free
    /\ LET r == TypeMap_remove(data, k) IN
         /\ data' = r.data
         /\ last' = Call("remove", k, ty, None, r.ret)
    /\ UNCHANGED <<view, mref>>

\* entry borrows the map for 'a: the view is alive until it is consumed or
\* dropped, and the map is not Free meanwhile.
Entry(k, ty) ==
    /\ Free
    /\ view' = [kind |-> TypeMap_entry(data, k), k |-> k, ty |-> ty, at |-> data]
    /\ last' = Call("entry", k, ty, None, TypeMap_entry(data, k))
    /\ UNCHANGED <<data, mref>>

MapLen ==
    /\ Free
    /\ last' = Call("len", 0, 0, None, TypeMap_len(data))
    /\ UNCHANGED <<data, view, mref>>

IsEmpty ==
    /\ Free
    /\ last' = Call("is_empty", 0, 0, None, TypeMap_is_empty(data))
    /\ UNCHANGED <<data, view, mref>>

Clear ==
    /\ Free
    /\ data' = TypeMap_clear(data)
    /\ last' = Call("clear", 0, 0, None, None)
    /\ UNCHANGED <<view, mref>>

----------------------------------------------------------------------------
\* The operations of a live view.

OccGet ==
    /\ view.kind = "Occupied" /\ mref = NoRef
    /\ \E r \in OccupiedEntry_get(data, view.k, view.ty) :
         last' = Call("get", view.k, view.ty, None, r)
    /\ UNCHANGED <<data, view, mref>>

\* get_mut(&mut self): the reference borrows the view, which outlives it.
OccGetMut ==
    /\ view.kind = "Occupied" /\ mref = NoRef
    /\ mref' = [from |-> "get_mut", k |-> view.k, ty |-> view.ty]
    /\ last' = Call("get_mut", view.k, view.ty, None, Some(view.k))
    /\ UNCHANGED <<data, view>>

\* into_mut(self): the view is consumed, the reference lives on.
OccIntoMut ==
    /\ view.kind = "Occupied" /\ mref = NoRef
    /\ mref' = [from |-> "into_mut", k |-> view.k, ty |-> view.ty]
    /\ view' = NoView
    /\ last' = Call("into_mut", view.k, view.ty, None, Some(view.k))
    /\ UNCHANGED data

\* set(&mut self, value): the view stays.
OccSet(v) ==
    /\ view.kind = "Occupied" /\ mref = NoRef
    /\ LET r == OccupiedEntry_set(data, view.k, view.ty, v) IN
         /\ data' = r.data
         /\ \E old \in r.rets : last' = Call("occ_set", view.k, view.ty, Some(v), old)
    /\ UNCHANGED <<view, mref>>

\* take(self): the view is consumed.
OccTake ==
    /\ view.kind = "Occupied" /\ mref = NoRef
    /\ LET r == OccupiedEntry_take(data, view.k, view.ty) IN
         /\ data' = r.data
         /\ \E old \in r.rets : last' = Call("take", view.k, view.ty, None, old)
    /\ view' = NoView
    /\ UNCHANGED mref

\* VacantEntry::set(self, value) -> &'a mut V: the view is consumed, the
\* reference lives on.
VacSet(v) ==
    /\ view.kind = "Vacant" /\ mref = NoRef
    /\ data' = VacantEntry_set(data, view.k, view.ty, v)
    /\ mref' = [from |-> "vac_set", k |-> view.k, ty |-> view.ty]
    /\ view' = NoView
    /\ last' = Call("vac_set", view.k, view.ty, Some(v), Some(view.k))

\* The view goes out of scope unused.
DropView ==
    /\ view # NoView /\ mref = NoRef
    /\ view' = NoView
    /\ UNCHANGED <<data, mref, last>>

\* *r = w through the live &mut V.
WriteRef(w) ==
    /\ mref # NoRef
    /\ \E b \in write_unchecked(data[mref.k], mref.ty, w) :
         data' = [data EXCEPT ![mref.k] = b]
    /\ last' = Call("write", mref.k, mref.ty, Some(w), None)
    /\ UNCHANGED <<view, mref>>

\* The reference's lifetime ends.
DropRef ==
    /\ mref # NoRef
    /\ mref' = NoRef
    /\ UNCHANGED <<data, view, last>>

Next ==
    \/ \E p \in Assoc, v \in Values : Insert(p[1], p[2], v)
    \/ \E p \in Assoc : Find(p[1], p[2])
    \/ \E p \in Assoc : FindMut(p[1], p[2])
    \/ \E p \in Assoc : Contains(p[1], p[2])
    \/ \E p \in Assoc : Remove(p[1], p[2])
    \/ \E p \in Assoc : Entry(p[1], p[2])
    \/ MapLen
    \/ IsEmpty
    \/ Clear
    \/ OccGet
    \/ OccGetMut
    \/ OccIntoMut
    \/ \E v \in Values : OccSet(v)
    \/ OccTake
    \/ \E v \in Values : VacSet(v)
    \/ DropView
    \/ \E w \in Values : WriteRef(w)
    \/ DropRef

Spec == Init /\ [][Next]_vars
----------------------------------------------------------------------------
\* C1 (as stated): insert returns true exactly when an entry for K existed
\* before the call and was replaced, false exactly when it was newly created.
C1_InsertTrueWhenReplaced ==
    last.op = "insert" => (last.ret <=> last.k \in DOMAIN last.pre)

\* C1 (amended): insert returns true exactly when NO entry for K existed
\* before the call (the entry is newly created), and false exactly when an
\* entry existed and was replaced; either way K has an entry afterwards.
C1_InsertTrueWhenNew ==
    last.op = "insert" =>
        /\ last.ret <=> last.k \notin DOMAIN last.pre
        /\ last.k \in DOMAIN data

C1_Witness ==
    /\ last.op = "insert"
    /\ last.k \in DOMAIN last.pre
    /\ last.ret = FALSE

\* C2: in every state reached through the typed operations, the box in K's
\* slot was built from the value type of every Assoc pair of K, so that a
\* typed read under K never recovers a value stored as another type.
C2_StoredTypeIsAssocType ==
    \A p \in Assoc : p[1] \in DOMAIN data => data[p[1]].ty = p[2]

\* C3: right after insert<K,V>(v), find<K,V>() returns Some(v) and nothing
\* else, and contains<K,V>() is true, whether or not K had an entry before.
C3_RoundTrip ==
    last.op = "insert" =>
        /\ TypeMap_find(data, last.k, last.ty) = {last.arg}
        /\ TypeMap_contains(data, last.k)

C3_Witness ==
    /\ last.op = "insert"
    /\ last.k \in DOMAIN last.pre
    /\ Some(last.pre[last.k].val) # last.arg
    /\ TypeMap_find(data, last.k, last.ty) = {last.arg}

\* C4: an insert on a key that has an entry leaves len() unchanged and an
\* insert on an absent key raises it by exactly 1; after insert(a) then
\* insert(b) under the same K, find returns b, the value inserted last.
C4_Uniqueness ==
    last.op = "insert" =>
        /\ TypeMap_len(data) =
             TypeMap_len(last.pre) + (IF last.k \in DOMAIN last.pre THEN 0 ELSE 1)
        /\ TypeMap_find(data, last.k, last.ty) = {last.arg}
        /\ \A j \in DOMAIN data \ {last.k} : j \in DOMAIN last.pre

C4_Witness ==
    /\ last.op = "insert"
    /\ last.k \in DOMAIN last.pre
    /\ last.pre[last.k].ty = last.ty
    /\ Some(last.pre[last.k].val) # last.arg
    /\ TypeMap_len(data) = TypeMap_len(last.pre)
    /\ TypeMap_len(data) > 1

\* C5: remove on an absent key returns false and leaves the map as it was;
\* on a present key it returns true, K is absent afterwards, len() is down by
\* exactly 1, and a second remove right after would return false.
C5_Remove ==
    last.op = "remove" =>
        IF last.k \in DOMAIN last.pre
        THEN /\ last.ret = TRUE
             /\ ~TypeMap_contains(data, last.k)
             /\ TypeMap_len(data) = TypeMap_len(last.pre) - 1
             /\ TypeMap_remove(data, last.k).ret = FALSE
        ELSE /\ last.ret = FALSE
             /\ data = last.pre

C5_Witness ==
    /\ last.op = "remove"
    /\ last.ret = TRUE
    /\ TypeMap_len(last.pre) > 1
    /\ ~TypeMap_contains(data, last.k)

\* C6: with K absent when entry<K,V>() was called, Vacant.set(v) leaves the
\* map exactly as insert<K,V>(v) would have left the map entry was called on.
C6_VacantSetIsInsert ==
    [][(view.kind = "Vacant" /\ last'.op = "vac_set") =>
          /\ view.k \notin DOMAIN view.at
          /\ \E v \in Values :
               /\ last'.arg = Some(v)
               /\ data' = TypeMap_insert(view.at, view.k, view.ty, v).data]_vars

C6_Witness ==
    /\ last.op = "vac_set"
    /\ DOMAIN last.pre # {}
    /\ last.k \notin DOMAIN last.pre
    /\ last.k \in DOMAIN data

\* C7: with K present when entry<K,V>() was called, Occupied.take() leaves the
\* map exactly as remove<K,V>() would have left the map entry was called on.
C7_TakeIsRemove ==
    [][(view.kind = "Occupied" /\ last'.op = "take") =>
          /\ view.k \in DOMAIN view.at
          /\ data' = TypeMap_remove(view.at, view.k).data]_vars

C7_Witness ==
    /\ last.op = "take"
    /\ last.k \in DOMAIN last.pre
    /\ last.k \notin DOMAIN data
    /\ DOMAIN data # {}

\* C8: entry<K,V>() yields Occupied exactly when K has an entry and Vacant
\* exactly when it has none, and leaves the map as it was; after an insert
\* under K the view is Occupied, after a take or a remove of K it is Vacant.
C8_EntryKind ==
    /\ last.op = "entry" =>
         /\ last.ret = "Occupied" <=> last.k \in DOMAIN last.pre
         /\ last.ret = "Vacant" <=> last.k \notin DOMAIN last.pre
         /\ data = last.pre
    /\ view # NoView => (view.kind = "Occupied" <=> view.k \in DOMAIN view.at)
    /\ last.op = "insert" => TypeMap_entry(data, last.k) = "Occupied"
    /\ last.op \in {"take", "remove"} => TypeMap_entry(data, last.k) = "Vacant"

C8_Witness ==
    /\ last.op = "entry"
    /\ last.ret = "Occupied"
    /\ view.kind = "Occupied"
    /\ TypeMap_len(data) > 1

\* C9: after clear(), whatever the map held, len() is 0, is_empty() is true,
\* and for every key contains is false and find is absent.
C9_Clear ==
    last.op = "clear" =>
        /\ TypeMap_len(data) = 0
        /\ TypeMap_is_empty(data)
        /\ \A p \in Assoc :
             /\ ~TypeMap_contains(data, p[1])
             /\ TypeMap_find(data, p[1], p[2]) = {None}

C9_Witness ==
    /\ last.op = "clear"
    /\ TypeMap_len(last.pre) > 1
    /\ TypeMap_is_empty(data)

\* C10: Occupied.set(new) returns the value that was stored under K right
\* before the call and replaces it: afterwards find<K,V>() returns new, K is
\* still present and len() is unchanged.
C10_OccupiedSet ==
    last.op = "occ_set" =>
        /\ last.ret = last.pre[last.k].val
        /\ TypeMap_find(data, last.k, last.ty) = {last.arg}
        /\ TypeMap_contains(data, last.k)
        /\ TypeMap_len(data) = TypeMap_len(last.pre)

\* C11: in every reachable state len() is the exact number of key types that
\* have an entry (each call moves it by what its result says: +1 for an insert
\* or a Vacant.set that created the slot, -1 for a remove or take that dropped
\* one, to 0 for clear), and is_empty() is true exactly when len() is 0.
C11_LenExact ==
    /\ TypeMap_len(data) = Cardinality({k \in Keys : TypeMap_contains(data, k)})
    /\ TypeMap_is_empty(data) <=> TypeMap_len(data) = 0
    /\ last.op = "len" => last.ret = Cardinality(DOMAIN data)
    /\ last.op = "is_empty" => (last.ret <=> Cardinality(DOMAIN data) = 0)
    /\ TypeMap_len(data) = TypeMap_len(last.pre) +
         CASE last.op = "insert"  -> (IF last.ret THEN 1 ELSE 0)
           [] last.op = "remove"  -> (IF last.ret THEN 0 - 1 ELSE 0)
           [] last.op = "take"    -> 0 - 1
           [] last.op = "vac_set" -> 1
           [] last.op = "clear"   -> 0 - TypeMap_len(last.pre)
           [] OTHER               -> 0

C11_Witness ==
    /\ last.op = "len"
    /\ last.ret > 1
    /\ \E j, k \in DOMAIN data : j # k /\ data[j].ty = data[k].ty

\* C12: for every key type K, contains<K,V>() is true exactly when K has an
\* entry, find<K,V>() and find_mut<K,V>() are absent exactly when it has
\* none, so contains is true exactly when find returns a value.
C12_ContainsIffFind ==
    /\ \A p \in Assoc :
         /\ TypeMap_contains(data, p[1]) <=> p[1] \in DOMAIN data
         /\ None \in TypeMap_find(data, p[1], p[2]) <=> p[1] \notin DOMAIN data
         /\ TypeMap_find(data, p[1], p[2]) = {None} <=> p[1] \notin DOMAIN data
         /\ TypeMap_find_mut(data, p[1]) = None <=> p[1] \notin DOMAIN data
         /\ TypeMap_contains(data, p[1]) <=>
              \A r \in TypeMap_find(data, p[1], p[2]) : r # None
    /\ last.op = "contains" => (last.ret <=> last.k \in DOMAIN data)
    /\ last.op = "find" => (last.ret = None <=> last.k \notin DOMAIN data)
    /\ last.op = "find_mut" => (last.ret = None <=> last.k \notin DOMAIN data)

C12_Witness ==
    /\ last.op = "contains"
    /\ last.ret = FALSE
    /\ DOMAIN data # {}
    /\ TypeMap_find(data, last.k, last.ty) = {None}

C14_ExclusiveBorrow ==
    [][LET called == \/ last'.op # last.op
                     \/ last'.k # last.k
                     \/ last'.ty # last.ty
                     \/ last'.arg # last.arg
                     \/ last'.pre # last.pre
                     \/ last'.ret # last.ret
       IN
       /\ (called /\ last'.op \in {"insert", "find", "find_mut", "contains",
                                   "remove", "entry", "len", "is_empty",
                                   "clear"})
            => (view = NoView /\ mref = NoRef)
       /\ (view # NoView /\ view' # view) => view' = NoView
       /\ (view # NoView /\ mref = NoRef /\ called)
            => /\ last'.k = view.k
               /\ last'.ty = view.ty
               /\ IF view.kind = "Occupied"
                  THEN last'.op \in {"get", "get_mut", "into_mut", "occ_set", "take"}
                  ELSE last'.op = "vac_set"
       /\ (mref # NoRef /\ called)
            => (last'.op = "write" /\ last'.k = mref.k /\ mref' = mref)
       /\ (called /\ last'.op = "entry") => (view = NoView /\ view' # NoView)
      ]_<<last.op, vars>>

C14_Witness ==
    /\ view.kind = "Occupied"
    /\ mref.from = "get_mut"
    /\ last.op = "write"
    /\ last.k = view.k
    /\ TypeMap_len(data) > 1

\* C15: on an Occupied view of K, get() returns the value find<K,V>() gave on
\* the map just before (the one value find can give there) and leaves the map
\* as it was, and take() returns that same value.
C15_GetTakeValue ==
    /\ last.op = "get" =>
         /\ TypeMap_find(last.pre, last.k, last.ty) = {Some(last.ret)}
         /\ data = last.pre
    /\ last.op = "take" =>
         TypeMap_find(last.pre, last.k, last.ty) = {Some(last.ret)}

\* C16: a write of w through the reference of find_mut, get_mut, into_mut or
\* Vacant.set lands in K's slot: find<K,V>() then returns w, and the set of
\* present keys and len() are as before the write.
C16_WriteThroughRef ==
    last.op = "write" =>
        /\ TypeMap_find(data, last.k, last.ty) = {last.arg}
        /\ DOMAIN data = DOMAIN last.pre
        /\ TypeMap_len(data) = TypeMap_len(last.pre)

====
